---- MODULE Spec2Model ----
(***************************************************************************)
(* Orders dashboard: the ETL reconciliation (DataWarehouse) and the KPI    *)
(* computation (KPIAnalyzer) of src/orders-dashboard/src.                  *)
(*                                                                         *)
(* A DataFrame is a record [cols, rows]: cols is the set of column names,  *)
(* rows the sequence of its rows.  Every row is a record with the same ten *)
(* fields; a field whose column is absent holds the null of its type.      *)
(***************************************************************************)
EXTENDS Integers, Sequences, FiniteSets, TLC

VARIABLES web_df, app_df, items_df, channels_df, sort_ties, calls,
          merged_data, analyzer, final_kpi, result,
          files, now, os_name, loads, orders_table, db_calls

vars == <<web_df, app_df, items_df, channels_df, sort_ties, calls,
          merged_data, analyzer, final_kpi, result,
          files, now, os_name, loads, orders_table, db_calls>>

\* the file system under BASE_DIR, the clock, the platform, the load calls made
file_vars == <<files, now, os_name, loads>>

\* the orders table of the database and the calls that wrote to it
db_vars == <<orders_table, db_calls>>

io_vars == <<file_vars, db_vars>>

etl_vars == <<web_df, app_df, items_df, channels_df, sort_ties, calls, merged_data>>

kpi_vars == <<analyzer, final_kpi, result>>

(***************************************************************************)
(* Bounds of the model.                                                    *)
(***************************************************************************)
MaxWebRows == 2

MaxAppRows == 1

MaxItemRows == 2

MaxCalls == 2
MaxKpiRows == 3
MaxFilterRows == 2
MaxClock == 1
MaxLoads == 3
MaxDbCalls == 3

(***************************************************************************)
(* Cell values.                                                            *)
(***************************************************************************)
\* numeric null (NaN): what a left merge leaves in quantity / unit_price
NaN == -1

\* string null: sku / channel_name of an unmatched row
None == "None"

\* a cell that was never given (the column is absent from the source)
Missing == [form |-> "missing", date |-> 0, time |-> 0]

\* pd.NaT: the datetime null
NaT == [form |-> "datetime64", date |-> 0, time |-> 0]

IsNaT(t) == t.date = 0

\* a raw date cell as a CSV gives it: "2025-01-0<d>" or "2025-01-0<d> <h>:00:00"
IsoDate(d) == [form |-> "iso_date", date |-> d, time |-> 0]

IsoDateTime(d, h) == [form |-> "iso_datetime", date |-> d, time |-> h]

\* pd.to_datetime on one cell: parses the text forms to one timestamp type,
\* maps a missing cell to NaT, leaves a timestamp as it is
ToDatetime(cell) ==
    IF cell.form = "missing" THEN NaT
    ELSE [form |-> "datetime64", date |-> cell.date, time |-> cell.time]

\* timestamp a is strictly earlier than timestamp b
Before(a, b) == a.date < b.date \/ (a.date = b.date /\ a.time < b.time)

(***************************************************************************)
(* Frames.                                                                 *)
(***************************************************************************)
\* pd.DataFrame()
EmptyFrame == [cols |-> {}, rows |-> <<>>]

\* DataFrame.empty: some axis has length 0
IsEmpty(df) == df.cols = {} \/ df.rows = <<>>

BlankRow ==
    [order_id |-> NaN, channel_id |-> NaN, order_date |-> Missing,
     status |-> None, updated_at |-> Missing, sku |-> None, quantity |-> NaN,
     unit_price |-> NaN, channel_name |-> None, line_total |-> NaN]

RECURSIVE SeqUnionCols(_)
SeqUnionCols(frames) ==
    IF frames = <<>> THEN {} ELSE Head(frames).cols \cup SeqUnionCols(Tail(frames))

RECURSIVE SeqConcatRows(_)
SeqConcatRows(frames) ==
    IF frames = <<>> THEN <<>> ELSE Head(frames).rows \o SeqConcatRows(Tail(frames))

\* pd.concat(frames, ignore_index=True): union of the columns, rows in order
Concat(frames) == [cols |-> SeqUnionCols(frames), rows |-> SeqConcatRows(frames)]

(***************************************************************************)
(* DataWarehouse.transform_and_load, step by step.                         *)
(***************************************************************************)
\* mutant: the empty sources are not filtered out
ValidSourcesUnfiltered(web, app) == <<web, app>>

\* valid_sources = [df for df in [web_df, app_df] if not df.empty]
ValidSources(web, app) == SelectSeq(<<web, app>>, LAMBDA df : ~IsEmpty(df))

\* raw_orders['updated_at'] = pd.to_datetime(raw_orders['updated_at'])
UpdatedAtToDatetime(rows) ==
    [k \in 1..Len(rows) |-> [rows[k] EXCEPT !.updated_at = ToDatetime(@)]]

\* mutant: the sort is ascending, the oldest record first
SortPrecedesAscending(rows, ties, i, j) ==
    LET a == rows[i].updated_at
        b == rows[j].updated_at
    IN  IF IsNaT(a) /\ IsNaT(b) THEN i < j
        ELSE IF IsNaT(b) THEN TRUE
        ELSE IF IsNaT(a) THEN FALSE
        ELSE IF Before(a, b) THEN TRUE
        ELSE IF Before(b, a) THEN FALSE
        ELSE IF ties = "stable" THEN i < j ELSE j < i

\* mutant: na_position='first', the rows without a timestamp lead
SortPrecedesNaTFirst(rows, ties, i, j) ==
    LET a == rows[i].updated_at
        b == rows[j].updated_at
    IN  IF IsNaT(a) /\ IsNaT(b) THEN i < j
        ELSE IF IsNaT(a) THEN TRUE
        ELSE IF IsNaT(b) THEN FALSE
        ELSE IF Before(b, a) THEN TRUE
        ELSE IF Before(a, b) THEN FALSE
        ELSE IF ties = "stable" THEN i < j ELSE j < i

\* In sort_values('updated_at', ascending=False) row i comes before row j.
\* NaT sorts last, NaT rows keeping their order.  The default sort kind is
\* not stable: rows with equal keys come out in their original order
\* (ties = "stable") or not (ties = "reversed").
SortPrecedes(rows, ties, i, j) ==
    LET a == rows[i].updated_at
        b == rows[j].updated_at
    IN  IF IsNaT(a) /\ IsNaT(b) THEN i < j
        ELSE IF IsNaT(b) THEN TRUE
        ELSE IF IsNaT(a) THEN FALSE
        ELSE IF Before(b, a) THEN TRUE
        ELSE IF Before(a, b) THEN FALSE
        ELSE IF ties = "stable" THEN i < j ELSE j < i

SortValues(rows, ties) ==
    LET n == Len(rows)
        rank(i) == 1 + Cardinality({j \in 1..n : j # i /\ SortPrecedes(rows, ties, j, i)})
    IN  [k \in 1..n |-> rows[CHOOSE i \in 1..n : rank(i) = k]]

\* raw_orders after the concat and the optional sort
RawOrders(valid_sources, ties) ==
    LET raw_orders == Concat(valid_sources)
    IN  IF "updated_at" \in raw_orders.cols
        THEN [raw_orders EXCEPT !.rows = SortValues(UpdatedAtToDatetime(@), ties)]
        ELSE raw_orders

\* mutant: no row is dropped
DropDuplicatesNone(rows) == rows

\* mutant: keep='last'
RECURSIVE DropDuplicatesKeepLast(_)
DropDuplicatesKeepLast(rows) ==
    IF rows = <<>> THEN <<>>
    ELSE IF \E j \in 2..Len(rows) : rows[j].order_id = Head(rows).order_id
         THEN DropDuplicatesKeepLast(Tail(rows))
         ELSE <<Head(rows)>> \o DropDuplicatesKeepLast(Tail(rows))

\* drop_duplicates(subset=['order_id'], keep='first')
RECURSIVE DropDuplicates(_)
DropDuplicates(rows) ==
    IF rows = <<>> THEN <<>>
    ELSE LET n == Len(rows)
             init == SubSeq(rows, 1, n - 1)
         IN  IF \E j \in 1..(n - 1) : rows[j].order_id = rows[n].order_id
             THEN DropDuplicates(init)
             ELSE Append(DropDuplicates(init), rows[n])

\* orders['order_date'] = pd.to_datetime(orders['order_date'])
Orders(raw_orders) ==
    LET orders == [raw_orders EXCEPT !.rows = DropDuplicates(@)]
    IN  IF "order_date" \in orders.cols
        THEN [orders EXCEPT !.rows =
                 [k \in 1..Len(@) |-> [@[k] EXCEPT !.order_date = ToDatetime(@)]]]
        ELSE orders

RECURSIVE Flatten(_)
Flatten(seqs) == IF seqs = <<>> THEN <<>> ELSE Head(seqs) \o Flatten(Tail(seqs))

\* mutant: how='inner', an order without items is dropped
ItemJoinRowsInner(o, items) ==
    LET m == SelectSeq(items.rows, LAMBDA it : it.order_id = o.order_id)
    IN  [k \in 1..Len(m) |-> [o EXCEPT !.sku = m[k].sku, !.quantity = m[k].quantity,
                                       !.unit_price = m[k].unit_price,
                                       !.line_total = m[k].line_total]]

\* the rows one order row becomes in orders.merge(items_df, on='order_id', how='left')
ItemJoinRows(o, items) ==
    LET m == SelectSeq(items.rows, LAMBDA it : it.order_id = o.order_id)
        carry(src) == [o EXCEPT !.sku = src.sku, !.quantity = src.quantity,
                                !.unit_price = src.unit_price,
                                !.line_total = src.line_total]
    IN  IF m = <<>> THEN <<carry(BlankRow)>>
        ELSE [k \in 1..Len(m) |-> carry(m[k])]

MergeItems(orders, items) ==
    [cols |-> orders.cols \cup items.cols,
     rows |-> Flatten([k \in 1..Len(orders.rows) |-> ItemJoinRows(orders.rows[k], items)])]

\* mutant: only quantity is forced to zero, unit_price stays null
ZeroItemsQuantityOnly(orders) ==
    [cols |-> orders.cols \cup {"quantity", "unit_price"},
     rows |-> [k \in 1..Len(orders.rows) |->
                  [orders.rows[k] EXCEPT !.quantity = 0, !.unit_price = NaN]]]

\* full_data = orders; full_data[['quantity', 'unit_price']] = 0
ZeroItems(orders) ==
    [cols |-> orders.cols \cup {"quantity", "unit_price"},
     rows |-> [k \in 1..Len(orders.rows) |->
                  [orders.rows[k] EXCEPT !.quantity = 0, !.unit_price = 0]]]

\* 3. Join Items table
JoinItems(orders, items) ==
    IF ~IsEmpty(items) THEN MergeItems(orders, items) ELSE ZeroItems(orders)

\* mutant: an inner join, a row without a matching channel is dropped
ChannelJoinRowsInner(r, channels) ==
    LET m == SelectSeq(channels.rows, LAMBDA ch : ch.channel_id = r.channel_id)
    IN  [k \in 1..Len(m) |-> [r EXCEPT !.channel_name = m[k].channel_name]]

\* the rows one row becomes in full_data.merge(channels_df, on='channel_id', how='left')
ChannelJoinRows(r, channels) ==
    LET m == SelectSeq(channels.rows, LAMBDA ch : ch.channel_id = r.channel_id)
    IN  IF m = <<>> THEN <<[r EXCEPT !.channel_name = None]>>
        ELSE [k \in 1..Len(m) |-> [r EXCEPT !.channel_name = m[k].channel_name]]

MergeChannels(full_data, channels) ==
    [cols |-> full_data.cols \cup channels.cols,
     rows |-> Flatten([k \in 1..Len(full_data.rows) |->
                          ChannelJoinRows(full_data.rows[k], channels)])]

\* 4. Join Channels table
JoinChannels(full_data, channels) ==
    IF ~IsEmpty(channels) THEN MergeChannels(full_data, channels) ELSE full_data

\* quantity * unit_price of one row; NaN when either factor is NaN
LineTotal(r) ==
    IF r.quantity = NaN \/ r.unit_price = NaN THEN NaN ELSE r.quantity * r.unit_price

\* mutant: line_total is computed only when the column is not there yet
DeriveIfAbsent(full_data) ==
    IF "line_total" \in full_data.cols THEN full_data
    ELSE [cols |-> full_data.cols \cup {"line_total"},
          rows |-> [k \in 1..Len(full_data.rows) |->
                       [full_data.rows[k] EXCEPT !.line_total = LineTotal(full_data.rows[k])]]]

\* full_data['line_total'] = full_data['quantity'] * full_data['unit_price']
Derive(full_data) ==
    [cols |-> full_data.cols \cup {"line_total"},
     rows |-> [k \in 1..Len(full_data.rows) |->
                  [full_data.rows[k] EXCEPT !.line_total = LineTotal(full_data.rows[k])]]]

\* steps 1 to 5 on the non-empty order sources
Reconcile(valid_sources, items, channels, ties) ==
    Derive(JoinChannels(JoinItems(Orders(RawOrders(valid_sources, ties)), items), channels))

\* the value of self.merged_data when transform_and_load returns
TransformResult(prev, web, app, items, channels, ties) ==
    LET valid_sources == ValidSources(web, app)
    IN  IF valid_sources = <<>> THEN prev
        ELSE Reconcile(valid_sources, items, channels, ties)

(***************************************************************************)
(* KPIAnalyzer.                                                            *)
(***************************************************************************)
\* a rate or mean, kept exact as numerator / denominator
Frac(n, d) == [num |-> n, den |-> d]

\* the literal 0 the code returns on its guarded paths
Zero == Frac(0, 1)

\* the label "N/A"
NA == [sku |-> "N/A", quantity |-> NaN]

\* outcome of a call: a returned value, or the exception that left the call
Returned(v) == [raised |-> "none", value |-> v]

Raised(exc) == [raised |-> exc, value |-> <<>>]

\* mutant: sum(skipna=False), one NaN cell makes the sum NaN
SumLineTotalNoSkip(rows) ==
    LET sum[n \in 0..Len(rows)] == IF n = 0 THEN 0 ELSE sum[n - 1] + rows[n].line_total
    IN  IF \E k \in 1..Len(rows) : rows[k].line_total = NaN THEN NaN ELSE sum[Len(rows)]

\* Series.sum(): NaN cells are skipped
RECURSIVE SumLineTotal(_)
SumLineTotal(rows) ==
    IF rows = <<>> THEN 0
    ELSE (IF Head(rows).line_total = NaN THEN 0 ELSE Head(rows).line_total)
         + SumLineTotal(Tail(rows))

RECURSIVE SumQuantity(_)
SumQuantity(rows) ==
    IF rows = <<>> THEN 0
    ELSE (IF Head(rows).quantity = NaN THEN 0 ELSE Head(rows).quantity)
         + SumQuantity(Tail(rows))

\* self.df[self.df['status'] == s]
WithStatus(rows, s) == SelectSeq(rows, LAMBDA r : r.status = s)

\* mutant: valid_orders['line_total'].mean(), a flat mean over the rows
AovFlatMean(valid_rows) == Frac(SumLineTotal(valid_rows), Len(valid_rows))

\* valid_orders.groupby('order_id')['line_total'].sum().mean()
Aov(valid_rows) ==
    LET grouped == SelectSeq(valid_rows, LAMBDA r : r.order_id # NaN)
        keys == {grouped[k].order_id : k \in 1..Len(grouped)}
    IN  Frac(SumLineTotal(grouped), Cardinality(keys))

\* self.df.drop_duplicates(subset=['order_id'])
Unique(rows) == DropDuplicates(rows)

\* the sku labels in sorting order (groupby sorts its keys)
SkuOrder == <<"SKU001", "SKU002", "SKU003">>

\* self.df.groupby('sku')['quantity'].sum(): one entry per non-null sku, keys ascending
SkuTotals(rows) ==
    LET present == {k \in 1..Len(SkuOrder) : \E i \in 1..Len(rows) : rows[i].sku = SkuOrder[k]}
        total(k) == SumQuantity(SelectSeq(rows, LAMBDA r : r.sku = SkuOrder[k]))
        nth(n) == CHOOSE k \in present : Cardinality({j \in present : j < k}) = n - 1
    IN  [n \in 1..Cardinality(present) |-> [sku |-> SkuOrder[nth(n)], quantity |-> total(nth(n))]]

\* top_sku.index[0], top_sku.iloc[0] after sort_values(ascending=False); the
\* sort kind is not stable, so among equal sums either end of the tie can lead
BestSku(rows, ties) ==
    LET totals == SkuTotals(rows)
        n == Len(totals)
        best == {i \in 1..n : \A j \in 1..n : totals[j].quantity <= totals[i].quantity}
        first == CHOOSE i \in best : \A j \in best : i <= j
        last == CHOOSE i \in best : \A j \in best : j <= i
    IN  IF n = 0 THEN NA
        ELSE IF ties = "stable" THEN totals[first] ELSE totals[last]

\* mutant: every row that is not cancelled counts as revenue
RevenueNotCancelled(rows) ==
    SumLineTotal(SelectSeq(rows, LAMBDA r : r.status # "cancelled"))

\* rev = valid_orders['line_total'].sum()
Revenue(rows) == SumLineTotal(WithStatus(rows, "completed"))

\* mutant: returned quantity over the quantity of completed and returned rows
ReturnRateOfDelivered(rows) ==
    LET total_qty == SumQuantity(WithStatus(rows, "completed"))
                         + SumQuantity(WithStatus(rows, "returned"))
        ret_qty == SumQuantity(WithStatus(rows, "returned"))
    IN  IF total_qty > 0 THEN Frac(ret_qty * 100, total_qty) ELSE Zero

\* ret_rate = (ret_qty / total_qty * 100) if total_qty > 0 else 0
ReturnRate(rows) ==
    LET total_qty == SumQuantity(rows)
        ret_qty == SumQuantity(WithStatus(rows, "returned"))
    IN  IF total_qty > 0 THEN Frac(ret_qty * 100, total_qty) ELSE Zero

\* mutant: cancelled rows over all rows, without drop_duplicates
CancelRateRowGrain(rows) ==
    IF Len(rows) > 0
    THEN Frac(Len(WithStatus(rows, "cancelled")) * 100, Len(rows))
    ELSE Zero

\* cancel_rate over unique_orders = self.df.drop_duplicates(subset=['order_id'])
CancelRate(rows) ==
    LET unique == Unique(rows)
    IN  IF Len(unique) > 0
        THEN Frac(Len(WithStatus(unique, "cancelled")) * 100, Len(unique))
        ELSE Zero

MetricsColumns == {"status", "line_total", "quantity", "order_id"}

\* get_metrics past its guard: the five metrics of a non-empty dataset
ComputeMetrics(df, ties) ==
    IF ~(MetricsColumns \subseteq df.cols) THEN Raised("KeyError")
    ELSE
        LET valid_orders == WithStatus(df.rows, "completed")
            rev == Revenue(df.rows)
            aov == IF valid_orders # <<>> THEN Aov(valid_orders) ELSE Zero
            ret_rate == ReturnRate(df.rows)
            cancel_rate == CancelRate(df.rows)
            best_sku == IF "sku" \in df.cols THEN BestSku(df.rows, ties) ELSE NA
        IN  Returned([rev |-> rev, ret_rate |-> ret_rate, aov |-> aov,
                      cancel_rate |-> cancel_rate, best_sku |-> best_sku])

\* get_metrics without its guard on the empty dataset
GetMetricsUnguarded(df, ties) == ComputeMetrics(df, ties)

\* KPIAnalyzer.get_metrics
GetMetrics(df, ties) ==
    IF IsEmpty(df)
    THEN Returned([rev |-> 0, ret_rate |-> Zero, aov |-> Zero, cancel_rate |-> Zero,
                   best_sku |-> NA])
    ELSE ComputeMetrics(df, ties)

\* Series.dt needs a datetime column
IsDatetimeColumn(rows) == \A k \in 1..Len(rows) : rows[k].order_date.form = "datetime64"

\* the empty pd.DataFrame() the two series methods return on an empty dataset
NoSeries == [kind |-> "DataFrame", items |-> <<>>]

Series(items) == [kind |-> "Series", items |-> items]

\* mutant: groupby(valid['order_date']), one entry per timestamp
DailyTotalsByTimestamp(valid) ==
    LET stamps == {valid[k].order_date : k \in 1..Len(valid)} \ {NaT}
        nth(n) == CHOOSE d \in stamps : Cardinality({e \in stamps : Before(e, d)}) = n - 1
        total(d) == SumLineTotal(SelectSeq(valid, LAMBDA r : r.order_date = d))
    IN  [n \in 1..Cardinality(stamps) |-> [key |-> nth(n).date, value |-> total(nth(n))]]

\* valid.groupby(valid['order_date'].dt.date)['line_total'].sum(): keys ascending, NaT dropped
DailyTotals(valid) ==
    LET dates == {valid[k].order_date.date : k \in 1..Len(valid)} \ {NaT.date}
        nth(n) == CHOOSE d \in dates : Cardinality({e \in dates : e < d}) = n - 1
        total(d) == SumLineTotal(SelectSeq(valid, LAMBDA r : r.order_date.date = d))
    IN  [n \in 1..Cardinality(dates) |-> [key |-> nth(n), value |-> total(nth(n))]]

\* KPIAnalyzer.get_daily_revenue
GetDailyRevenue(df) ==
    IF IsEmpty(df) THEN Returned(NoSeries)
    ELSE IF ~({"status", "order_date", "line_total"} \subseteq df.cols) THEN Raised("KeyError")
    ELSE LET valid == WithStatus(df.rows, "completed")
         IN  IF ~IsDatetimeColumn(valid) THEN Raised("AttributeError")
             ELSE Returned(Series(DailyTotals(valid)))

\* the channel names in sorting order
ChannelOrder == <<"Mobile App", "Website">>

\* valid.groupby('channel_name')['line_total'].sum(): keys ascending, null dropped
ChannelTotals(valid) ==
    LET present == {k \in 1..Len(ChannelOrder) :
                       \E i \in 1..Len(valid) : valid[i].channel_name = ChannelOrder[k]}
        nth(n) == CHOOSE k \in present : Cardinality({j \in present : j < k}) = n - 1
        total(k) == SumLineTotal(SelectSeq(valid, LAMBDA r : r.channel_name = ChannelOrder[k]))
    IN  [n \in 1..Cardinality(present) |->
            [key |-> ChannelOrder[nth(n)], value |-> total(nth(n))]]

\* KPIAnalyzer.get_channel_dist
GetChannelDist(df) ==
    IF IsEmpty(df) THEN Returned(NoSeries)
    ELSE IF ~({"status", "channel_name", "line_total"} \subseteq df.cols) THEN Raised("KeyError")
    ELSE Returned(Series(ChannelTotals(WithStatus(df.rows, "completed"))))

\* temp[temp['channel_name'] == channel]
ByChannel(rows, channel) == SelectSeq(rows, LAMBDA r : r.channel_name = channel)

\* mutant: the end of the range is excluded
ByDateRangeExclusiveEnd(rows, s, e) ==
    SelectSeq(rows, LAMBDA r : ~IsNaT(r.order_date) /\ r.order_date.date >= s
                                 /\ r.order_date.date < e)

\* temp[(temp['order_date'].dt.date >= s) & (temp['order_date'].dt.date <= e)]
ByDateRange(rows, s, e) ==
    SelectSeq(rows, LAMBDA r : ~IsNaT(r.order_date) /\ r.order_date.date >= s
                                 /\ r.order_date.date <= e)

\* mutant: temp = self.df, no copy
CopyByReference(df) == [df |-> df, shared |-> TRUE]

\* temp = self.df.copy(): a new object; shared says whether the frame an
\* engine wraps is the very object its receiver wraps
Copy(df) == [df |-> df, shared |-> FALSE]

\* mutant: 'All' is not a sentinel, it is compared with channel_name as any
\* other channel
FilterNoSentinel(df, channel, date_range) ==
    LET temp == Copy(df)
    IN  IF "channel_name" \notin df.cols THEN Raised("KeyError")
        ELSE
          LET temp1 == [df |-> [temp.df EXCEPT !.rows = ByChannel(@, channel)],
                        shared |-> FALSE]
          IN  IF Len(date_range) # 2 THEN Returned(temp1)
              ELSE IF "order_date" \notin df.cols THEN Raised("KeyError")
              ELSE IF ~IsDatetimeColumn(temp1.df.rows) THEN Raised("AttributeError")
              ELSE Returned([df |-> [temp1.df EXCEPT !.rows =
                                        ByDateRange(@, date_range[1], date_range[2])],
                             shared |-> FALSE])

\* mutant: the date mask selects from self.df, so it undoes the channel filter
FilterDateOnOriginal(df, channel, date_range) ==
    LET temp == Copy(df)
    IN  IF channel # "All" /\ "channel_name" \notin df.cols THEN Raised("KeyError")
        ELSE
          LET temp1 == IF channel # "All"
                       THEN [df |-> [temp.df EXCEPT !.rows = ByChannel(@, channel)],
                             shared |-> FALSE]
                       ELSE temp
          IN  IF Len(date_range) # 2 THEN Returned(temp1)
              ELSE IF "order_date" \notin df.cols THEN Raised("KeyError")
              ELSE IF ~IsDatetimeColumn(temp1.df.rows) THEN Raised("AttributeError")
              ELSE Returned([df |-> [df EXCEPT !.rows =
                                        ByDateRange(@, date_range[1], date_range[2])],
                             shared |-> FALSE])

\* KPIAnalyzer.filter: the wrapped frame of the engine it returns
Filter(df, channel, date_range) ==
    LET temp == Copy(df)
    IN  IF channel # "All" /\ "channel_name" \notin df.cols THEN Raised("KeyError")
        ELSE
          LET temp1 == IF channel # "All"
                       THEN [df |-> [temp.df EXCEPT !.rows = ByChannel(@, channel)],
                             shared |-> FALSE]
                       ELSE temp
          IN  IF Len(date_range) # 2 THEN Returned(temp1)
              ELSE IF "order_date" \notin df.cols THEN Raised("KeyError")
              ELSE IF ~IsDatetimeColumn(temp1.df.rows) THEN Raised("AttributeError")
              ELSE Returned([df |-> [temp1.df EXCEPT !.rows =
                                        ByDateRange(@, date_range[1], date_range[2])],
                             shared |-> FALSE])

(***************************************************************************)
(* DataLoader.load and the files it reads and writes.                      *)
(***************************************************************************)
\* no file at a path; also uploaded_file = None
NoFile == [text |-> "absent", data |-> 0]

\* a comma-delimited file that holds the table d
Comma(d) == [text |-> "comma", data |-> d]

\* a semicolon-delimited file without commas: read with sep=',' it parses
\* into one column per line
Semicolon(d) == [text |-> "semicolon", data |-> d]

\* a semicolon-delimited file with commas in some lines: read with sep=','
\* the tokenizer raises
SemicolonRagged(d) == [text |-> "semicolon_ragged", data |-> d]

\* a comma-delimited file whose fields are quoted because they hold commas
Quoted(d) == [text |-> "quoted", data |-> d]

\* a file that no separator parses (no bytes, or not text)
Binary == [text |-> "binary", data |-> 0]

\* os.path.exists(path)
Exists(f) == f.text # "absent"

\* a parsed dataset: the table it holds and how its columns came out
Table(d, columns) == [data |-> d, columns |-> columns]

\* pd.DataFrame()
EmptyTable == Table(0, "none")

\* pd.read_csv(file, sep=sep)
ReadCsv(f, sep) ==
    CASE f.text = "comma" ->
            Returned(Table(f.data, IF sep = "," THEN "split" ELSE "joined_by_comma"))
      [] f.text = "semicolon" ->
            Returned(Table(f.data, IF sep = ";" THEN "split" ELSE "joined_by_semicolon"))
      [] f.text = "semicolon_ragged" ->
            IF sep = ";" THEN Returned(Table(f.data, "split")) ELSE Raised("ParserError")
      [] f.text = "quoted" ->
            Returned(Table(f.data, "joined_by_comma"))
      [] OTHER -> Raised("ParserError")

\* the file df.to_csv(path, index=False) writes
ToCsv(df) ==
    CASE df.columns = "split" -> Comma(df.data)
      [] df.columns = "joined_by_semicolon" -> Semicolon(df.data)
      [] OTHER -> Quoted(df.data)

\* no backup yet
NoBackups == [t \in 0..MaxClock |-> NoFile]

\* os.rename(src, dst) raises FileExistsError on Windows when dst exists; on
\* POSIX it replaces dst
RenameRaises(os, dst) == os = "nt" /\ Exists(dst)

\* os.rename(local_path, backup_path), backup_path named after the second t
Backup(fs, t) == [fs EXCEPT !.backups[t] = fs.local, !.local = NoFile]

\* df_new.to_csv(local_path, index=False)
Write(fs, df_new) == [fs EXCEPT !.local = ToCsv(df_new)]

\* mutant: the new file is written first, then local_path is renamed
PersistWriteFirst(fs, df_new, t) ==
    IF Exists(fs.local) THEN Backup(Write(fs, df_new), t) ELSE Write(fs, df_new)

\* 2. backup of the old file, 3. the new file over it
Persist(fs, df_new, t) ==
    Write(IF Exists(fs.local) THEN Backup(fs, t) ELSE fs, df_new)

\* what a call returns, what it shows, and the files it leaves
Outcome(df, message, fs) == [raised |-> "none", df |-> df, message |-> message, files |-> fs]

\* mutant: only the comma-delimited parse is tried
LocalBranchCommaOnly(fs) ==
    LET comma == ReadCsv(fs.local, ",")
    IN  IF comma.raised = "none" THEN Outcome(comma.value, "none", fs)
        ELSE Outcome(EmptyTable, "error", fs)

\* B. the local file: comma-delimited, else semicolon-delimited, else empty
LocalBranch(fs) ==
    LET comma == ReadCsv(fs.local, ",")
        semicolon == ReadCsv(fs.local, ";")
    IN  IF comma.raised = "none" THEN Outcome(comma.value, "none", fs)
        ELSE IF semicolon.raised = "none" THEN Outcome(semicolon.value, "none", fs)
        ELSE Outcome(EmptyTable, "error", fs)

\* C. no data
MissingBranch(fs) == Outcome(EmptyTable, "warning", fs)

\* mutant: after a failed upload the local file is read
UploadFailedFallback(fs) == IF Exists(fs.local) THEN LocalBranch(fs) ELSE MissingBranch(fs)

\* except Exception: st.error(...); return pd.DataFrame()
UploadFailed(fs) == Outcome(EmptyTable, "error", fs)

\* A. a new upload: read it, back the old file up, write the new one
UploadBranch(uploaded_file, fs, t, os) ==
    LET df_new == ReadCsv(uploaded_file, ",")
    IN  IF df_new.raised # "none" THEN UploadFailed(fs)
        ELSE IF Exists(fs.local) /\ RenameRaises(os, fs.backups[t]) THEN UploadFailed(fs)
        ELSE Outcome(df_new.value, "success", Persist(fs, df_new.value, t))

\* DataLoader.load(uploaded_file, local_path, source_label) at the second t
LoadOutcome(uploaded_file, fs, t, os) ==
    IF uploaded_file # NoFile THEN UploadBranch(uploaded_file, fs, t, os)
    ELSE IF Exists(fs.local) THEN LocalBranch(fs)
    ELSE MissingBranch(fs)

\* the files st.file_uploader hands over, and None
Uploads == {NoFile, Comma(1), Comma(2), Semicolon(1), Binary}

\* what can lie at local_path before the first call
LocalFiles == {NoFile, Comma(0), Semicolon(0), SemicolonRagged(0), Binary}

Platforms == {"posix", "nt"}

(***************************************************************************)
(* The orders table of the database and the two loaders that write to it.  *)
(***************************************************************************)
\* the columns of the orders table whose values must be unique: CREATE TABLE
\* orders declares no PRIMARY KEY and no UNIQUE index
OrdersUniqueColumns == {}

\* a DATETIME or text value stored in a DATE column keeps its date
ToDate(cell) == IF cell.form = "missing" THEN cell ELSE IsoDate(cell.date)

\* the tuple the loaders build from one row of the file
OrderTuple(row, cols) ==
    [order_id |-> row.order_id, channel_id |-> row.channel_id,
     order_date |-> ToDate(row.order_date), status |-> row.status,
     updated_at |-> IF "updated_at" \in cols THEN row.updated_at ELSE Missing]

\* df.drop_duplicates(subset=['order_id'], keep='last')
KeepLast(rows) ==
    LET kept == {k \in 1..Len(rows) :
                    \A j \in (k + 1)..Len(rows) : rows[j].order_id # rows[k].order_id}
        nth(n) == CHOOSE k \in kept : Cardinality({j \in kept : j < k}) = n - 1
    IN  [n \in 1..Cardinality(kept) |-> rows[nth(n)]]

\* INSERT INTO orders ... ON DUPLICATE KEY UPDATE ...: the row replaces the
\* rows that collide with it on a unique column, and is appended when none does
InsertOrUpdate(table, tuple, unique) ==
    LET hits == {k \in 1..Len(table) : \E c \in unique : table[k][c] = tuple[c]}
    IN  IF hits = {} THEN Append(table, tuple)
        ELSE [k \in 1..Len(table) |-> IF k \in hits THEN tuple ELSE table[k]]

\* cursor.executemany(query, data)
RECURSIVE ExecuteMany(_, _, _)
ExecuteMany(table, data, unique) ==
    IF data = <<>> THEN table
    ELSE ExecuteMany(InsertOrUpdate(table, Head(data), unique), Tail(data), unique)

\* the rows both loaders send to the database for one file
OrdersData(df) ==
    LET rows == KeepLast(df.rows)
    IN  [k \in 1..Len(rows) |-> OrderTuple(rows[k], df.cols)]

\* required_cols of insert_orders, the columns both loaders read of each row
RequiredCols == {"order_id", "channel_id", "order_date", "status"}

\* MySQLDataLoader.load_orders: (success, table afterwards); a file without
\* a column it reads makes it raise KeyError, which is caught
LoadOrders(table, df) ==
    IF ~(RequiredCols \subseteq df.cols) THEN [ok |-> FALSE, table |-> table]
    ELSE [ok |-> TRUE, table |-> ExecuteMany(table, OrdersData(df), OrdersUniqueColumns)]

\* CSVInserter.insert_orders: the required columns are validated first
InsertOrders(table, df) ==
    IF ~(\A col \in RequiredCols : col \in df.cols) THEN [ok |-> FALSE, table |-> table]
    ELSE [ok |-> TRUE, table |-> ExecuteMany(table, OrdersData(df), OrdersUniqueColumns)]

(***************************************************************************)
(* Input datasets.                                                         *)
(***************************************************************************)
SeqsUpTo(S, n) == UNION {[1..k -> S] : k \in 0..n}

OrderColumns == {"order_id", "channel_id", "order_date", "status"}

MkOrder(id, ch, date, st, upd) ==
    [BlankRow EXCEPT !.order_id = id, !.channel_id = ch, !.order_date = date,
                     !.status = st, !.updated_at = upd]

\* order-header rows: order 1 in three versions (two of them updated at the
\* same instant), order 2 in one
OrderPool ==
    {MkOrder(1, 1, IsoDate(1), "completed", IsoDateTime(1, 10)),
     MkOrder(1, 2, IsoDateTime(1, 15), "cancelled", IsoDateTime(1, 15)),
     MkOrder(1, 99, IsoDate(2), "returned", IsoDateTime(1, 15)),
     MkOrder(2, 2, IsoDateTime(2, 10), "completed", IsoDateTime(2, 10))}

\* an order-header source with or without the optional updated_at column
OrderFrame(rows, has_updated_at) ==
    [cols |-> OrderColumns \cup (IF has_updated_at THEN {"updated_at"} ELSE {}),
     rows |-> IF has_updated_at THEN rows
              ELSE [k \in 1..Len(rows) |-> [rows[k] EXCEPT !.updated_at = Missing]]]

OrderFrames(n) ==
    {EmptyFrame} \cup {OrderFrame(s, u) : s \in SeqsUpTo(OrderPool, n), u \in BOOLEAN}

MkItem(id, sku, qty, price, total) ==
    [BlankRow EXCEPT !.order_id = id, !.sku = sku, !.quantity = qty,
                     !.unit_price = price, !.line_total = total]

\* item rows; order 3 is in no order source; line_total is a stale input value
ItemPool ==
    {MkItem(1, "SKU001", 2, 100, 7),
     MkItem(1, "SKU002", 1, 50, 7),
     MkItem(2, "SKU001", 1, 50, 7),
     MkItem(3, "SKU003", 1, 75, 7)}

\* an items dataset with or without the optional sku column and with or
\* without a line_total column of its own
ItemFrame(rows, has_sku, has_line_total) ==
    [cols |-> {"order_id", "quantity", "unit_price"}
                \cup (IF has_sku THEN {"sku"} ELSE {})
                \cup (IF has_line_total THEN {"line_total"} ELSE {}),
     rows |-> [k \in 1..Len(rows) |->
                  [rows[k] EXCEPT !.sku = IF has_sku THEN @ ELSE None,
                                  !.line_total = IF has_line_total THEN @ ELSE NaN]]]

ItemFrames(n) ==
    {EmptyFrame} \cup {ItemFrame(s, k, t) : s \in SeqsUpTo(ItemPool, n),
                                            k \in BOOLEAN, t \in BOOLEAN}

MkChannel(id, name) == [BlankRow EXCEPT !.channel_id = id, !.channel_name = name]

ChannelFrame(rows) == [cols |-> {"channel_id", "channel_name"}, rows |-> rows]

\* tests/conftest.py sample_channels
SampleChannels == ChannelFrame(<<MkChannel(1, "Website"), MkChannel(2, "Mobile App")>>)

ChannelFrames ==
    {EmptyFrame, SampleChannels, ChannelFrame(<<MkChannel(2, "Mobile App")>>)}

\* a small items dataset covering orders 1 (two lines) and 2 (one line)
SampleItems ==
    ItemFrame(<<MkItem(1, "SKU001", 2, 100, 7), MkItem(1, "SKU002", 1, 50, 7),
                MkItem(2, "SKU001", 1, 50, 7)>>, TRUE, FALSE)

\* small order sources: order 1 twice in web, once more (latest) in app
SampleWeb ==
    OrderFrame(<<MkOrder(1, 1, IsoDate(1), "completed", IsoDateTime(1, 10)),
                 MkOrder(2, 2, IsoDateTime(2, 10), "completed", IsoDateTime(2, 10)),
                 MkOrder(1, 99, IsoDate(2), "returned", IsoDateTime(1, 15))>>, TRUE)

SampleApp ==
    OrderFrame(<<MkOrder(1, 2, IsoDateTime(1, 15), "cancelled", IsoDateTime(2, 10))>>, TRUE)

Inputs(w, a, i, c) == [web |-> w, app |-> a, items |-> i, channels |-> c]

\* the inputs of the reconciliation: every pair of order sources with the
\* sample dimensions, and the sample orders with every items / channels dataset
ETLInputs ==
    {Inputs(w, a, i, c) : w \in OrderFrames(MaxWebRows), a \in OrderFrames(MaxAppRows),
                          i \in {EmptyFrame, SampleItems}, c \in {EmptyFrame, SampleChannels}}
    \cup
    {Inputs(w, a, i, c) : w \in {SampleWeb, OrderFrame(<<>>, TRUE)}, a \in {EmptyFrame, SampleApp},
                          i \in ItemFrames(MaxItemRows), c \in ChannelFrames}

\* the inputs of one dashboard run: each source present, or missing
DashboardInputs ==
    {Inputs(w, a, i, c) : w \in {EmptyFrame, SampleWeb},
                          a \in {EmptyFrame, OrderFrame(<<>>, TRUE), SampleApp},
                          i \in {EmptyFrame, SampleItems},
                          c \in {EmptyFrame, SampleChannels}}

SortTies == {"stable", "reversed"}

FilterChannels == {"All", "Website", "Mobile App"}

DateRanges == {<<>>, <<1, 1>>, <<1, 2>>}

\* the columns of a reconciled dataset
ReconciledColumns ==
    {"order_id", "channel_id", "order_date", "status", "sku", "quantity", "unit_price",
     "channel_name", "line_total"}

\* the header of each order of the reconciled datasets given to KPIAnalyzer:
\* one status, channel and order_date per order_id
OrderHeader(id) ==
    CASE id = 1 -> MkOrder(1, 1, ToDatetime(IsoDate(1)), "completed", Missing)
      [] id = 2 -> MkOrder(2, 2, ToDatetime(IsoDateTime(2, 10)), "completed", Missing)
      [] id = 3 -> MkOrder(3, 1, ToDatetime(IsoDateTime(2, 15)), "returned", Missing)
      [] id = 4 -> MkOrder(4, 99, ToDatetime(IsoDate(3)), "cancelled", Missing)
      [] id = 5 -> MkOrder(5, 2, ToDatetime(IsoDateTime(1, 23)), "pending", Missing)
      [] id = 6 -> MkOrder(6, 1, ToDatetime(IsoDateTime(3, 12)), "completed", Missing)
      [] OTHER  -> MkOrder(7, 99, ToDatetime(IsoDateTime(2, 20)), "completed", Missing)

\* one reconciled row: the order's header, its channel's name, one item line
\* and the derived line_total
MkLine(id, sku, qty, price) ==
    LET joined == ChannelJoinRows([OrderHeader(id) EXCEPT !.sku = sku, !.quantity = qty,
                                                          !.unit_price = price],
                                  SampleChannels)[1]
    IN  [joined EXCEPT !.line_total = LineTotal(joined)]

\* reconciled rows: orders of every status, orders with several lines, ties
\* between summed quantities, orders without any item (null line), a
\* completed order on a channel that the channels dataset does not have
KpiRowPool ==
    {MkLine(1, "SKU001", 2, 100), MkLine(1, "SKU002", 1, 50), MkLine(2, "SKU002", 2, 50),
     MkLine(3, "SKU001", 1, 100), MkLine(4, "SKU003", 1, 75), MkLine(4, "SKU001", 1, 100),
     MkLine(5, None, NaN, NaN), MkLine(6, None, NaN, NaN), MkLine(7, "SKU003", 1, 75)}

\* a reconciled dataset with or without the optional sku column
KpiFrame(rows, has_sku) ==
    [cols |-> IF has_sku THEN ReconciledColumns ELSE ReconciledColumns \ {"sku"},
     rows |-> IF has_sku THEN rows
              ELSE [k \in 1..Len(rows) |-> [rows[k] EXCEPT !.sku = None]]]

\* the datasets given to KPIAnalyzer(data).get_metrics()
KpiDatasets == {KpiFrame(s, u) : s \in SeqsUpTo(KpiRowPool, MaxKpiRows), u \in BOOLEAN}

\* one row per order, on the channels Website, Mobile App and none
FilterRowPool ==
    {MkLine(1, "SKU001", 2, 100), MkLine(2, "SKU002", 2, 50), MkLine(3, "SKU001", 1, 100),
     MkLine(4, "SKU003", 1, 75), MkLine(5, None, NaN, NaN)}

\* a reconciled dataset with channel_name, or without it (channels were empty)
FilterFrame(rows, has_channel_name) ==
    [cols |-> IF has_channel_name THEN ReconciledColumns
              ELSE ReconciledColumns \ {"channel_name"},
     rows |-> IF has_channel_name THEN rows
              ELSE [k \in 1..Len(rows) |-> [rows[k] EXCEPT !.channel_name = None]]]

\* the datasets given to KPIAnalyzer(data).filter(...)
FilterDatasets ==
    {FilterFrame(s, u) : s \in SeqsUpTo(FilterRowPool, MaxFilterRows), u \in BOOLEAN}

\* channel arguments: the sentinel, a channel name, the same name in lower
\* case, a prefix of it
AnyChannels == {"All", "Website", "website", "Web"}

\* date_range arguments of zero, one and two elements
AnyDateRanges == {<<>>, <<1>>, <<1, 1>>, <<1, 2>>, <<2, 3>>}

(***************************************************************************)
(* The state machine.                                                      *)
(***************************************************************************)
\* no KPIAnalyzer constructed yet
NoAnalyzer == [exists |-> FALSE, df |-> EmptyFrame, shared |-> FALSE]

NoResult == [op |-> "none", target |-> "none", raised |-> "none", value |-> <<>>]

\* dw = DataWarehouse()
Init ==
    /\ web_df = EmptyFrame
    /\ app_df = EmptyFrame
    /\ items_df = EmptyFrame
    /\ channels_df = EmptyFrame
    /\ sort_ties = "stable"
    /\ calls = 0
    /\ merged_data = EmptyFrame
    /\ analyzer = NoAnalyzer
    /\ final_kpi = NoAnalyzer
    /\ result = NoResult
    /\ files = [local |-> NoFile, backups |-> NoBackups]
    /\ now = 0
    /\ os_name = "posix"
    /\ loads = 0
    /\ orders_table = <<>>
    /\ db_calls = 0

\* dw.transform_and_load(web, app, items, channels)
TransformAndLoad(in, ties) ==
    /\ ~analyzer.exists
    /\ web_df' = in.web
    /\ app_df' = in.app
    /\ items_df' = in.items
    /\ channels_df' = in.channels
    /\ sort_ties' = ties
    /\ calls' = calls + 1
    /\ merged_data' = TransformResult(merged_data, in.web, in.app, in.items, in.channels, ties)
    /\ UNCHANGED kpi_vars
    /\ UNCHANGED io_vars

\* one call on a new DataWarehouse
Reconciliation ==
    /\ calls = 0
    /\ \E in \in ETLInputs, ties \in SortTies : TransformAndLoad(in, ties)

\* a call of the dashboard's ETL step, on a new or on a used DataWarehouse
Refresh ==
    /\ calls < MaxCalls
    /\ \E in \in DashboardInputs, ties \in SortTies : TransformAndLoad(in, ties)

\* a new script run: everything is constructed again
Rerun ==
    /\ calls > 0
    /\ web_df' = EmptyFrame
    /\ app_df' = EmptyFrame
    /\ items_df' = EmptyFrame
    /\ channels_df' = EmptyFrame
    /\ sort_ties' = "stable"
    /\ calls' = 0
    /\ merged_data' = EmptyFrame
    /\ analyzer' = NoAnalyzer
    /\ final_kpi' = NoAnalyzer
    /\ result' = NoResult
    /\ UNCHANGED io_vars

\* analyzer = KPIAnalyzer(dw.merged_data): self.df = df, the same object
NewAnalyzer ==
    /\ ~analyzer.exists
    /\ analyzer' = [exists |-> TRUE, df |-> merged_data, shared |-> TRUE]
    /\ final_kpi' = NoAnalyzer
    /\ result' = NoResult
    /\ UNCHANGED <<etl_vars, io_vars>>

Targets == {"analyzer", "final_kpi"}

Engine(target) == IF target = "analyzer" THEN analyzer ELSE final_kpi

\* final_kpi = analyzer.filter(channel, date_range)
FilterCall(channel, date_range) ==
    LET out == Filter(analyzer.df, channel, date_range)
    IN  /\ result' = [op |-> "filter", target |-> "analyzer",
                      raised |-> out.raised, value |-> <<channel, date_range>>]
        /\ final_kpi' = IF out.raised = "none"
                        THEN [exists |-> TRUE, df |-> out.value.df,
                              shared |-> out.value.shared]
                        ELSE final_kpi
        /\ UNCHANGED <<analyzer, etl_vars, io_vars>>

\* the dashboard's call, with the channel and the dates its widgets offer
CallFilter ==
    /\ analyzer.exists
    /\ \E channel \in FilterChannels, date_range \in DateRanges :
          FilterCall(channel, date_range)

\* a call with any channel text and any date_range length
FilterAny ==
    /\ analyzer.exists
    /\ \E channel \in AnyChannels, date_range \in AnyDateRanges :
          FilterCall(channel, date_range)

\* analyzer.filter(c1, r1).filter(channel, date_range): a second filter on the
\* engine the first one returned
FilterAgain ==
    /\ result.op = "filter" /\ result.target = "analyzer" /\ result.raised = "none"
    /\ \E channel \in AnyChannels, date_range \in AnyDateRanges :
          LET out == Filter(final_kpi.df, channel, date_range)
          IN  /\ result' = [op |-> "filter", target |-> "final_kpi", raised |-> out.raised,
                            value |-> result.value \o <<channel, date_range>>]
              /\ final_kpi' = IF out.raised = "none"
                              THEN [exists |-> TRUE, df |-> out.value.df,
                                    shared |-> out.value.shared]
                              ELSE final_kpi
    /\ UNCHANGED <<analyzer, etl_vars, io_vars>>

\* engine.get_metrics()
CallGetMetrics ==
    /\ \E target \in Targets, ties \in SortTies :
          /\ Engine(target).exists
          /\ LET out == GetMetrics(Engine(target).df, ties)
             IN  result' = [op |-> "get_metrics", target |-> target,
                            raised |-> out.raised, value |-> out.value]
    /\ UNCHANGED <<analyzer, final_kpi, etl_vars, io_vars>>

\* engine.get_daily_revenue()
CallGetDailyRevenue ==
    /\ \E target \in Targets :
          /\ Engine(target).exists
          /\ LET out == GetDailyRevenue(Engine(target).df)
             IN  result' = [op |-> "get_daily_revenue", target |-> target,
                            raised |-> out.raised, value |-> out.value]
    /\ UNCHANGED <<analyzer, final_kpi, etl_vars, io_vars>>

\* engine.get_channel_dist()
CallGetChannelDist ==
    /\ \E target \in Targets :
          /\ Engine(target).exists
          /\ LET out == GetChannelDist(Engine(target).df)
             IN  result' = [op |-> "get_channel_dist", target |-> target,
                            raised |-> out.raised, value |-> out.value]
    /\ UNCHANGED <<analyzer, final_kpi, etl_vars, io_vars>>

\* the dashboard: ETL calls, then the analyzer and its queries
Next ==
    \/ Refresh
    \/ Rerun
    \/ NewAnalyzer
    \/ CallFilter
    \/ CallGetMetrics
    \/ CallGetDailyRevenue
    \/ CallGetChannelDist

Spec == Init /\ [][Next]_vars

\* the reconciliation alone, one call per DataWarehouse, over all inputs
NextETL ==
    \/ Reconciliation
    \/ Rerun

SpecETL == Init /\ [][NextETL]_vars

\* analyzer = KPIAnalyzer(data) for a dataset built outside the reconciler
Wrapping(datasets) ==
    /\ web_df = EmptyFrame
    /\ app_df = EmptyFrame
    /\ items_df = EmptyFrame
    /\ channels_df = EmptyFrame
    /\ sort_ties = "stable"
    /\ calls = 0
    /\ merged_data = EmptyFrame
    /\ analyzer \in {[exists |-> TRUE, df |-> d, shared |-> TRUE] : d \in datasets}
    /\ final_kpi = NoAnalyzer
    /\ result = NoResult
    /\ files = [local |-> NoFile, backups |-> NoBackups]
    /\ now = 0
    /\ os_name = "posix"
    /\ loads = 0
    /\ orders_table = <<>>
    /\ db_calls = 0

\* the three queries on any reconciled dataset
NextKPI ==
    \/ CallGetMetrics
    \/ CallGetDailyRevenue
    \/ CallGetChannelDist

SpecKPI == Wrapping(KpiDatasets) /\ [][NextKPI]_vars

\* one filter, or two in a chain, on any reconciled dataset
NextFilter ==
    \/ FilterAny
    \/ FilterAgain

SpecFilter == Wrapping(FilterDatasets) /\ [][NextFilter]_vars

\* the source reader before its first call: a local file or none, no backup
InitLoader ==
    /\ web_df = EmptyFrame
    /\ app_df = EmptyFrame
    /\ items_df = EmptyFrame
    /\ channels_df = EmptyFrame
    /\ sort_ties = "stable"
    /\ calls = 0
    /\ merged_data = EmptyFrame
    /\ analyzer = NoAnalyzer
    /\ final_kpi = NoAnalyzer
    /\ result = NoResult
    /\ files \in {[local |-> f, backups |-> NoBackups] : f \in LocalFiles}
    /\ now = 0
    /\ os_name \in Platforms
    /\ loads = 0
    /\ orders_table = <<>>
    /\ db_calls = 0

\* DataLoader.load(uploaded_file, local_path, source_label), called when the
\* clock shows the second t; the result keeps the files as they were before
Load ==
    /\ loads < MaxLoads
    /\ \E uploaded_file \in Uploads, t \in now..MaxClock :
          LET out == LoadOutcome(uploaded_file, files, t, os_name)
          IN  /\ files' = out.files
              /\ now' = t
              /\ result' = [op |-> "load", target |-> "local_path", raised |-> out.raised,
                            value |-> [df |-> out.df, message |-> out.message,
                                       upload |-> uploaded_file, at |-> t,
                                       before |-> files]]
    /\ loads' = loads + 1
    /\ UNCHANGED <<os_name, etl_vars, analyzer, final_kpi, db_vars>>

\* the order files given to the database loaders: one or two versions of
\* order 1 in either order, another order, a file without updated_at, no file
OrderFiles ==
    LET v1 == MkOrder(1, 1, IsoDate(1), "completed", IsoDateTime(1, 10))
        v2 == MkOrder(1, 2, IsoDateTime(1, 15), "cancelled", IsoDateTime(1, 15))
        o2 == MkOrder(2, 2, IsoDateTime(2, 10), "completed", IsoDateTime(2, 10))
    IN  {EmptyFrame, OrderFrame(<<v1>>, TRUE), OrderFrame(<<v2>>, TRUE),
         OrderFrame(<<v1, v2>>, TRUE), OrderFrame(<<v2, v1>>, TRUE),
         OrderFrame(<<o2>>, TRUE), OrderFrame(<<v1, o2>>, FALSE)}

\* a call of one of the two loaders on the schema of create_schema
DbCall(op, df, out) ==
    /\ db_calls < MaxDbCalls
    /\ orders_table' = out.table
    /\ db_calls' = db_calls + 1
    /\ result' = [op |-> op, target |-> "orders", raised |-> "none",
                  value |-> [ok |-> out.ok, df |-> df]]
    /\ UNCHANGED <<etl_vars, analyzer, final_kpi, file_vars>>

\* loader.load_orders(df)
CallLoadOrders == \E df \in OrderFiles : DbCall("load_orders", df, LoadOrders(orders_table, df))

\* inserter.insert_orders(df)
CallInsertOrders ==
    \E df \in OrderFiles : DbCall("insert_orders", df, InsertOrders(orders_table, df))

\* the two database loaders, file after file
NextDb ==
    \/ CallLoadOrders
    \/ CallInsertOrders

SpecDb == Init /\ [][NextDb]_vars

\* the source reader alone, call after call on one local_path
NextLoader == Load

SpecLoader == InitLoader /\ [][NextLoader]_vars

(***************************************************************************)
(* Properties of the reconciliation.                                       *)
(***************************************************************************)
\* all order-header rows given to the latest call, web rows first
InputOrderRows == web_df.rows \o app_df.rows

InputOrderIds == {InputOrderRows[k].order_id : k \in 1..Len(InputOrderRows)}

InputRowsOf(id) == {k \in 1..Len(InputOrderRows) : InputOrderRows[k].order_id = id}

\* the rows of the reconciled dataset that belong to one order
RowGroup(id) == {k \in 1..Len(merged_data.rows) : merged_data.rows[k].order_id = id}

SameHeader(g, r) == g.status = r.status /\ g.channel_id = r.channel_id

\* every order-header row carries updated_at
AllTimestamped == \A k \in 1..Len(InputOrderRows) : InputOrderRows[k].updated_at.form # "missing"

\* the input rows of an order that no other row of that order is later than
LatestRowsOf(id) ==
    {k \in InputRowsOf(id) :
        \A j \in InputRowsOf(id) :
            ~Before(ToDatetime(InputOrderRows[k].updated_at),
                    ToDatetime(InputOrderRows[j].updated_at))}

\* C1: when every order-header row carries updated_at, each order_id of the
\* input has exactly one row-group in the output, and that group's status and
\* channel_id are those of an input row with the maximum updated_at
C1_DedupKeepsLatest ==
    (calls > 0 /\ AllTimestamped) =>
        \A id \in InputOrderIds :
            /\ RowGroup(id) # {}
            /\ \E k \in LatestRowsOf(id) :
                   \A g \in RowGroup(id) : SameHeader(merged_data.rows[g], InputOrderRows[k])

\* C1 witness: order 1 is completed in web at 10:00 and cancelled in app at
\* 15:00, and the output reports it cancelled on the app row's channel
C1_Witness ==
    /\ calls > 0
    /\ AllTimestamped
    /\ \E i \in 1..Len(web_df.rows), j \in 1..Len(app_df.rows) :
          /\ web_df.rows[i].order_id = 1 /\ app_df.rows[j].order_id = 1
          /\ web_df.rows[i].status = "completed" /\ app_df.rows[j].status = "cancelled"
          /\ Before(web_df.rows[i].updated_at, app_df.rows[j].updated_at)
    /\ Cardinality(InputRowsOf(1)) = 2
    /\ RowGroup(1) # {}
    /\ \A g \in RowGroup(1) : merged_data.rows[g].status = "cancelled"

\* C2: when no order-header source has an updated_at column, each order_id's
\* row-group carries the data of its first row in concatenation order (web
\* rows, then app rows)
C2_DedupWithoutTimestamp ==
    (calls > 0 /\ "updated_at" \notin (web_df.cols \cup app_df.cols)) =>
        \A id \in InputOrderIds :
            LET first == CHOOSE k \in InputRowsOf(id) : \A j \in InputRowsOf(id) : k <= j
            IN  /\ RowGroup(id) # {}
                /\ \A g \in RowGroup(id) :
                       /\ SameHeader(merged_data.rows[g], InputOrderRows[first])
                       /\ merged_data.rows[g].order_date =
                              ToDatetime(InputOrderRows[first].order_date)

\* C2 witness: without updated_at, order 1 is in both sources with different
\* status, and the output carries the web row's status
C2_Witness ==
    /\ calls > 0
    /\ "updated_at" \notin (web_df.cols \cup app_df.cols)
    /\ \E i \in 1..Len(web_df.rows), j \in 1..Len(app_df.rows) :
          /\ web_df.rows[i].order_id = 1 /\ app_df.rows[j].order_id = 1
          /\ web_df.rows[i].status # app_df.rows[j].status
          /\ \A k \in 1..(i - 1) : web_df.rows[k].order_id # 1
          /\ \A g \in RowGroup(1) : merged_data.rows[g].status = web_df.rows[i].status
    /\ RowGroup(1) # {}

\* channel_id is unique in the channels dataset
UniqueChannels ==
    \A i, j \in 1..Len(channels_df.rows) :
        channels_df.rows[i].channel_id = channels_df.rows[j].channel_id => i = j

ItemRowsOf(id) == {k \in 1..Len(items_df.rows) : items_df.rows[k].order_id = id}

OutputOrderIds == {merged_data.rows[k].order_id : k \in 1..Len(merged_data.rows)}

\* C3: with unique channels and a non-empty items dataset, the order_ids of
\* the output are those of the order sources; an order with N >= 1 items has
\* N rows, an order with none has one row with null sku, quantity and
\* unit_price; an item of an unknown order gives no row
C3_RowGroups ==
    (calls > 0 /\ UniqueChannels /\ ~IsEmpty(items_df)) =>
        /\ OutputOrderIds = InputOrderIds
        /\ \A id \in InputOrderIds :
              LET n == Cardinality(ItemRowsOf(id))
              IN  IF n >= 1 THEN Cardinality(RowGroup(id)) = n
                  ELSE /\ Cardinality(RowGroup(id)) = 1
                       /\ \A g \in RowGroup(id) :
                              /\ merged_data.rows[g].sku = None
                              /\ merged_data.rows[g].quantity = NaN
                              /\ merged_data.rows[g].unit_price = NaN

\* C3 witness: a deduplicated order with two items has two rows, another
\* order has no item and one null row
C3_Witness ==
    /\ calls > 0 /\ UniqueChannels /\ ~IsEmpty(items_df)
    /\ Cardinality(InputRowsOf(1)) > 1
    /\ Cardinality(ItemRowsOf(1)) = 2 /\ Cardinality(RowGroup(1)) = 2
    /\ ItemRowsOf(2) = {} /\ Cardinality(RowGroup(2)) = 1

\* C4: every row of the output has line_total = quantity * unit_price of that
\* row (null when a factor is null), whatever line_total the input carries
C4_LineTotalDerived ==
    (calls > 0 /\ ~IsEmpty(merged_data)) =>
        /\ "line_total" \in merged_data.cols
        /\ \A k \in 1..Len(merged_data.rows) :
              LET r == merged_data.rows[k]
              IN  IF r.quantity # NaN /\ r.unit_price # NaN
                  THEN r.line_total = r.quantity * r.unit_price
                  ELSE r.line_total = NaN

\* C4 witness: the items dataset carries its own line_total, different from
\* quantity * unit_price, and the output row has the product
C4_Witness ==
    /\ calls > 0
    /\ "line_total" \in items_df.cols
    /\ \E k \in 1..Len(merged_data.rows), i \in 1..Len(items_df.rows) :
          /\ items_df.rows[i].order_id = merged_data.rows[k].order_id
          /\ items_df.rows[i].line_total # items_df.rows[i].quantity * items_df.rows[i].unit_price
          /\ merged_data.rows[k].quantity = 2
          /\ merged_data.rows[k].line_total = 200

\* C10: when exactly one order source is empty, the output is the
\* reconciliation of the other source alone, and the same whichever of the
\* two positions the empty source takes
C10_OneSourceMissing ==
    (calls > 0 /\ IsEmpty(web_df) # IsEmpty(app_df)) =>
        LET present == IF IsEmpty(web_df) THEN app_df ELSE web_df
        IN  /\ merged_data = Reconcile(<<present>>, items_df, channels_df, sort_ties)
            /\ merged_data = TransformResult(EmptyFrame, app_df, web_df, items_df,
                                             channels_df, sort_ties)

\* C10 witness: the app source is an empty table that has an updated_at
\* column, the web source has rows and no such column, and the output has rows
C10_Witness ==
    /\ calls > 0
    /\ app_df.rows = <<>> /\ "updated_at" \in app_df.cols
    /\ web_df.rows # <<>> /\ "updated_at" \notin web_df.cols
    /\ Len(merged_data.rows) >= 2

(***************************************************************************)
(* Properties of a DataWarehouse that is called more than once.            *)
(***************************************************************************)
\* C5: a call whose two order sources are both empty yields an empty
\* reconciled dataset, whatever the items and channels datasets hold
C5_ShortCircuit ==
    (calls > 0 /\ IsEmpty(web_df) /\ IsEmpty(app_df)) => IsEmpty(merged_data)

\* C6: after any sequence of calls merged_data is the reconciliation of the
\* latest call's four inputs, empty when its two order sources were empty
C6_RebuiltInFull ==
    calls > 0 =>
        merged_data = TransformResult(EmptyFrame, web_df, app_df, items_df,
                                      channels_df, sort_ties)

(***************************************************************************)
(* Properties of the KPIAnalyzer.                                          *)
(***************************************************************************)
\* C7: a call on an engine leaves the receiver's dataset (and the warehouse's
\* dataset it shares) as it was; only filter replaces the derived engine, and
\* the engine filter returns never wraps the receiver's own frame object
C7_ReceiverUnchanged ==
    [][(analyzer.exists /\ analyzer'.exists) =>
          /\ analyzer' = analyzer
          /\ merged_data' = merged_data
          /\ (result'.op # "filter" => final_kpi' = final_kpi)
          /\ (final_kpi'.exists => ~final_kpi'.shared)]_vars

\* C7 witness: filter('All', []) kept every row of a non-empty dataset, and
\* the returned engine still wraps a copy
C7_Witness ==
    /\ result.op = "filter" /\ result.raised = "none"
    /\ result.value = <<"All", <<>>>>
    /\ analyzer.exists /\ final_kpi.exists
    /\ ~IsEmpty(analyzer.df)
    /\ final_kpi.df = analyzer.df
    /\ ~final_kpi.shared

KpiOps == {"get_metrics", "get_daily_revenue", "get_channel_dist", "filter"}

\* C8: on a dataset reconciled from well-typed inputs, whichever of items and
\* channels is empty, none of get_metrics, get_daily_revenue,
\* get_channel_dist and filter raises
C8_NeverRaises ==
    (calls > 0 /\ ValidSources(web_df, app_df) # <<>> /\ result.op \in KpiOps) =>
        result.raised = "none"

Reconciled == calls > 0 /\ ValidSources(web_df, app_df) # <<>>

\* C11: when items is empty and an order source is not, every reconciled row
\* has quantity, unit_price and line_total equal to 0, each order_id of the
\* sources has exactly one row, and get_metrics on the result reports
\* revenue 0
C11_EmptyItemsZero ==
    (Reconciled /\ IsEmpty(items_df)) =>
        /\ \A k \in 1..Len(merged_data.rows) :
              /\ merged_data.rows[k].quantity = 0
              /\ merged_data.rows[k].unit_price = 0
              /\ merged_data.rows[k].line_total = 0
        /\ {"quantity", "unit_price", "line_total"} \subseteq merged_data.cols
        /\ OutputOrderIds = InputOrderIds
        /\ \A id \in InputOrderIds : Cardinality(RowGroup(id)) = 1
        /\ (result.op = "get_metrics" /\ result.target = "analyzer") =>
              /\ analyzer.df = merged_data
              /\ result.raised = "none"
              /\ result.value.rev = 0

\* C11 witness: two orders, one of them in three input rows, reconciled
\* without items into two rows with completed status, and get_metrics was
\* called on the result
C11_Witness ==
    /\ Reconciled /\ IsEmpty(items_df)
    /\ InputOrderIds = {1, 2}
    /\ Cardinality(InputRowsOf(1)) = 3
    /\ Len(merged_data.rows) = 2
    /\ \E k \in 1..2 : merged_data.rows[k].status = "completed"
    /\ result.op = "get_metrics" /\ result.target = "analyzer"
    /\ result.value.rev = 0

\* the rows handed to the channel join by the latest call
RowsBeforeChannels ==
    JoinItems(Orders(RawOrders(ValidSources(web_df, app_df), sort_ties)), items_df).rows

\* a row without the two fields that steps 4 and 5 write
WithoutDerived(r) == [r EXCEPT !.channel_name = None, !.line_total = NaN]

ChannelsOf(id) == {j \in 1..Len(channels_df.rows) : channels_df.rows[j].channel_id = id}

\* C12: with a non-empty channels dataset whose channel_id is unique, the
\* channel join keeps every row once and in place; a row whose channel_id
\* matches a channel carries that channel's name, a row that matches none
\* is kept with a null channel_name
C12_ChannelJoinKeepsRows ==
    (Reconciled /\ ~IsEmpty(channels_df) /\ UniqueChannels) =>
        /\ "channel_name" \in merged_data.cols
        /\ Len(merged_data.rows) = Len(RowsBeforeChannels)
        /\ \A k \in 1..Len(merged_data.rows) :
              LET r == merged_data.rows[k]
              IN  /\ WithoutDerived(r) = WithoutDerived(RowsBeforeChannels[k])
                  /\ IF ChannelsOf(r.channel_id) = {} THEN r.channel_name = None
                     ELSE \E j \in ChannelsOf(r.channel_id) :
                              r.channel_name = channels_df.rows[j].channel_name

\* C12 witness: one reconciled row is on channel 2 and named "Mobile App",
\* another is on channel 99, which no channel row has, and is kept unnamed
C12_Witness ==
    /\ Reconciled /\ ~IsEmpty(channels_df) /\ UniqueChannels
    /\ \E k \in 1..Len(merged_data.rows) :
          /\ merged_data.rows[k].channel_id = 2
          /\ merged_data.rows[k].channel_name = "Mobile App"
    /\ \E k \in 1..Len(merged_data.rows) :
          /\ merged_data.rows[k].channel_id = 99
          /\ merged_data.rows[k].channel_name = None

(***************************************************************************)
(* Properties of filter.                                                   *)
(***************************************************************************)
\* the positions of the rows that satisfy both predicates of filter
Selected(rows, channel, date_range) ==
    {k \in 1..Len(rows) :
        /\ channel = "All" \/ rows[k].channel_name = channel
        /\ \/ Len(date_range) # 2
           \/ /\ date_range[1] <= rows[k].order_date.date
              /\ rows[k].order_date.date <= date_range[2]}

\* out holds exactly the rows of the given positions, in their order
IsSelection(out, rows, positions) ==
    /\ Len(out) = Cardinality(positions)
    /\ \A k \in positions : out[Cardinality({j \in positions : j <= k})] = rows[k]

\* the dataset has the column the channel predicate reads
ReadsPresentColumns(df, channel) == channel = "All" \/ "channel_name" \in df.cols

C14_FilterIdentity ==
    (result.op = "filter" /\ result.target = "analyzer"
        /\ result.value = <<"All", <<>>>>) =>
        /\ result.raised = "none"
        /\ final_kpi.exists
        /\ Len(final_kpi.df.rows) = Len(analyzer.df.rows)
        /\ final_kpi.df = analyzer.df

\* C14 witness: filter('All', []) on two rows of different channels returned
\* both rows
C14_Witness ==
    /\ result.op = "filter" /\ result.target = "analyzer"
    /\ result.value = <<"All", <<>>>>
    /\ Len(analyzer.df.rows) = 2
    /\ analyzer.df.rows[1].channel_name # analyzer.df.rows[2].channel_name
    /\ final_kpi.df.rows = analyzer.df.rows

\* the rows of analyzer.filter(channel, date_range), both predicates at once
Direct(channel, date_range) == Filter(analyzer.df, channel, date_range)

MetricsOfDataset ==
    result.op = "get_metrics" /\ result.target = "analyzer" /\ ~IsEmpty(analyzer.df)

\* the sum of val over the positions S
Total(S, val(_)) ==
    LET sum[T \in SUBSET S] ==
            IF T = {} THEN 0
            ELSE LET x == CHOOSE y \in T : TRUE IN val(x) + sum[T \ {x}]
    IN  sum[S]

\* a numeric cell as a term of a sum: null counts as 0
OrZero(v) == IF v = NaN THEN 0 ELSE v

\* the positions of the rows of the analyzer's dataset in one status
RowsIn(status) == {k \in 1..Len(analyzer.df.rows) : analyzer.df.rows[k].status = status}

AllRows == 1..Len(analyzer.df.rows)

LineTotalAt(k) == OrZero(analyzer.df.rows[k].line_total)

QuantityAt(k) == OrZero(analyzer.df.rows[k].quantity)

\* the order_ids of a set of positions
OrdersAt(S) == {analyzer.df.rows[k].order_id : k \in S}

\* C16: on a non-empty dataset the revenue of get_metrics is the sum of
\* line_total over exactly the rows whose status is 'completed', a null
\* line_total counting as 0
C16_Revenue ==
    MetricsOfDataset =>
        /\ result.raised = "none"
        /\ result.value.rev = Total(RowsIn("completed"), LineTotalAt)

\* C16 witness: a completed line of 200, a returned line of 100 and a
\* completed order without items give revenue 200
C16_Witness ==
    /\ MetricsOfDataset
    /\ Len(analyzer.df.rows) = 3
    /\ \E k \in RowsIn("completed") : analyzer.df.rows[k].line_total = 200
    /\ \E k \in RowsIn("completed") : analyzer.df.rows[k].line_total = NaN
    /\ \E k \in RowsIn("returned") : analyzer.df.rows[k].line_total = 100
    /\ result.value.rev = 200

\* C17: on a non-empty dataset avg_order_value times the number of distinct
\* order_ids that have a completed row is the revenue (the mean of each
\* such order's summed line_total), and it is 0 when no row is completed
C17_AvgOrderValue ==
    MetricsOfDataset =>
        /\ result.raised = "none"
        /\ IF RowsIn("completed") = {} THEN result.value.aov = Frac(0, 1)
           ELSE result.value.aov = Frac(Total(RowsIn("completed"), LineTotalAt),
                                        Cardinality(OrdersAt(RowsIn("completed"))))

\* C17 witness: three completed rows of two orders, 200 + 50 and 100, give
\* 350 / 2 and not 350 / 3
C17_Witness ==
    /\ MetricsOfDataset
    /\ Cardinality(RowsIn("completed")) = 3
    /\ Cardinality(OrdersAt(RowsIn("completed"))) = 2
    /\ result.value.aov = Frac(350, 2)

\* C18: on a non-empty dataset return_rate is the quantity of the returned
\* rows over the quantity of all rows, times 100, and 0 when the quantity
\* of all rows is 0
C18_ReturnRate ==
    MetricsOfDataset =>
        /\ result.raised = "none"
        /\ IF Total(AllRows, QuantityAt) = 0 THEN result.value.ret_rate = Frac(0, 1)
           ELSE result.value.ret_rate =
                    Frac(Total(RowsIn("returned"), QuantityAt) * 100,
                         Total(AllRows, QuantityAt))

\* C18 witness: 1 unit returned, 2 completed and 1 cancelled give 100 / 4
C18_Witness ==
    /\ MetricsOfDataset
    /\ Total(RowsIn("returned"), QuantityAt) = 1
    /\ Total(RowsIn("completed"), QuantityAt) = 2
    /\ Total(RowsIn("cancelled"), QuantityAt) = 1
    /\ result.value.ret_rate = Frac(100, 4)

\* C19: on a non-empty dataset cancel_rate is the number of distinct
\* cancelled order_ids over the number of all distinct order_ids, times 100
C19_CancelRate ==
    MetricsOfDataset =>
        /\ result.raised = "none"
        /\ result.value.cancel_rate =
               Frac(Cardinality(OrdersAt(RowsIn("cancelled"))) * 100,
                    Cardinality(OrdersAt(AllRows)))

\* C19 witness: a cancelled order of two rows and a completed order of one
\* give 100 / 2, not 200 / 3
C19_Witness ==
    /\ MetricsOfDataset
    /\ Cardinality(RowsIn("cancelled")) = 2
    /\ Cardinality(OrdersAt(RowsIn("cancelled"))) = 1
    /\ Cardinality(RowsIn("completed")) = 1
    /\ result.value.cancel_rate = Frac(100, 2)

\* the SKUs of the analyzer's dataset
Skus == {analyzer.df.rows[k].sku : k \in AllRows} \ {None}

\* the summed quantity of one SKU over all rows, whatever their status
SkuQuantity(sku) == Total({k \in AllRows : analyzer.df.rows[k].sku = sku}, QuantityAt)

\* the SKUs whose summed quantity is the maximum
TopSkus == {s \in Skus : \A t \in Skus : SkuQuantity(t) <= SkuQuantity(s)}

\* the place of a SKU in grouping-key order
KeyRank(sku) == CHOOSE n \in 1..Len(SkuOrder) : SkuOrder[n] = sku

\* the label names a SKU of maximum summed quantity and shows that sum
NamesATopSku ==
    /\ result.value.best_sku.sku \in TopSkus
    /\ result.value.best_sku.quantity = SkuQuantity(result.value.best_sku.sku)

\* C20: with a sku column top_sku_label names a SKU whose summed quantity
\* over all rows is the maximum, shows that sum, and among the SKUs tied for
\* the maximum names the first in grouping-key order; without a sku column
\* the label is "N/A"
C20_TopSku ==
    MetricsOfDataset =>
        /\ result.raised = "none"
        /\ IF "sku" \notin analyzer.df.cols \/ Skus = {}
           THEN result.value.best_sku = NA
           ELSE /\ NamesATopSku
                /\ \A s \in TopSkus : KeyRank(result.value.best_sku.sku) <= KeyRank(s)

(***************************************************************************)
(* Properties of the two series.                                           *)
(***************************************************************************)
\* the sum of the values of a series
SeriesTotal(items) == Total(1..Len(items), LAMBDA n : items[n].value)

\* the calendar dates that have a completed row
CompletedDates == {analyzer.df.rows[k].order_date.date : k \in RowsIn("completed")}

\* C21: on a non-empty dataset get_daily_revenue has exactly one entry for
\* each calendar date that has a completed row, valued at the sum of
\* line_total over the completed rows of that date, in ascending date
\* order; the entries add up to the revenue of get_metrics
C21_DailyRevenue ==
    (result.op = "get_daily_revenue" /\ result.target = "analyzer"
        /\ ~IsEmpty(analyzer.df)) =>
        /\ result.raised = "none"
        /\ LET items == result.value.items
           IN  /\ Len(items) = Cardinality(CompletedDates)
               /\ {items[n].key : n \in 1..Len(items)} = CompletedDates
               /\ \A n \in 1..Len(items) :
                     items[n].value =
                         Total({k \in RowsIn("completed") :
                                   analyzer.df.rows[k].order_date.date = items[n].key},
                               LineTotalAt)
               /\ \A n, m \in 1..Len(items) : n < m => items[n].key < items[m].key
               /\ \A ties \in SortTies :
                     SeriesTotal(items) = GetMetrics(analyzer.df, ties).value.rev

\* C21 witness: completed orders of day 1 (200) and of day 2 at 10:00 (100)
\* and at 20:00 (75), given latest first, come out as day 1: 200, day 2: 175
C21_Witness ==
    /\ result.op = "get_daily_revenue" /\ result.target = "analyzer"
    /\ Len(analyzer.df.rows) = 3
    /\ analyzer.df.rows[1].order_date = [form |-> "datetime64", date |-> 2, time |-> 20]
    /\ analyzer.df.rows[2].order_date = [form |-> "datetime64", date |-> 2, time |-> 10]
    /\ analyzer.df.rows[3].order_date = [form |-> "datetime64", date |-> 1, time |-> 0]
    /\ result.value.items = <<[key |-> 1, value |-> 200], [key |-> 2, value |-> 175]>>

\* the non-null channel names that have a completed row
CompletedChannels == {analyzer.df.rows[k].channel_name : k \in RowsIn("completed")} \ {None}

\* the completed rows on one channel name
CompletedOn(name) == {k \in RowsIn("completed") : analyzer.df.rows[k].channel_name = name}

\* C22: on a non-empty dataset get_channel_dist has one entry per non-null
\* channel_name that has a completed row, valued at the sum of line_total
\* over that channel's completed rows; a row with null channel_name is in no
\* entry but is counted in the revenue and in the distinct orders of
\* cancel_rate of get_metrics
C22_ChannelDist ==
    (result.op = "get_channel_dist" /\ result.target = "analyzer"
        /\ ~IsEmpty(analyzer.df)) =>
        /\ result.raised = "none"
        /\ LET items == result.value.items
           IN  /\ Len(items) = Cardinality(CompletedChannels)
               /\ {items[n].key : n \in 1..Len(items)} = CompletedChannels
               /\ \A n \in 1..Len(items) :
                     items[n].value = Total(CompletedOn(items[n].key), LineTotalAt)
               /\ \A ties \in SortTies :
                     LET metrics == GetMetrics(analyzer.df, ties).value
                     IN  /\ metrics.rev =
                                SeriesTotal(items) + Total(CompletedOn(None), LineTotalAt)
                         /\ metrics.cancel_rate.den = Cardinality(OrdersAt(AllRows))

\* every quantity and unit_price of the analyzer's dataset is >= 0 or null
NonNegativeInputs ==
    \A k \in AllRows :
        /\ analyzer.df.rows[k].quantity = NaN \/ analyzer.df.rows[k].quantity >= 0
        /\ analyzer.df.rows[k].unit_price = NaN \/ analyzer.df.rows[k].unit_price >= 0

\* a fraction between 0 and 100
IsPercentage(f) == f.den > 0 /\ 0 <= f.num /\ f.num <= 100 * f.den

\* C30: when every quantity and unit_price is >= 0 or null, get_metrics
\* returns revenue >= 0, avg_order_value >= 0, and return_rate and
\* cancel_rate between 0 and 100
C30_MetricRanges ==
    (result.op = "get_metrics" /\ result.target = "analyzer" /\ NonNegativeInputs) =>
        /\ result.raised = "none"
        /\ result.value.rev >= 0
        /\ result.value.aov.den > 0 /\ result.value.aov.num >= 0
        /\ IsPercentage(result.value.ret_rate)
        /\ IsPercentage(result.value.cancel_rate)

\* C30 witness: a completed order without items, a returned line and a
\* cancelled line give revenue 0, return_rate 50 and cancel_rate 100 / 3
C30_Witness ==
    /\ result.op = "get_metrics" /\ result.target = "analyzer" /\ NonNegativeInputs
    /\ \E k \in RowsIn("completed") : analyzer.df.rows[k].line_total = NaN
    /\ result.value.rev = 0
    /\ result.value.ret_rate = Frac(100, 2)
    /\ result.value.cancel_rate = Frac(100, 3)

(***************************************************************************)
(* Properties of the deduplication with partly missing timestamps.         *)
(***************************************************************************)
\* the input rows of an order that carry a value in updated_at
StampedRowsOf(id) == {k \in InputRowsOf(id) : InputOrderRows[k].updated_at.form # "missing"}

\* some order-header row carries updated_at and some other does not
PartlyTimestamped ==
    /\ \E k \in 1..Len(InputOrderRows) : InputOrderRows[k].updated_at.form # "missing"
    /\ \E k \in 1..Len(InputOrderRows) : InputOrderRows[k].updated_at.form = "missing"

\* the rows of the order in the output are made from input row k
SurvivorIs(id, k) ==
    \A g \in RowGroup(id) :
        /\ SameHeader(merged_data.rows[g], InputOrderRows[k])
        /\ merged_data.rows[g].updated_at = ToDatetime(InputOrderRows[k].updated_at)

\* C27: when only some of the unioned order rows carry updated_at, an
\* order_id with a timestamped and an untimestamped row keeps a timestamped
\* row, whichever source it came from, and an order_id with only
\* untimestamped rows keeps exactly one of them
C27_TimestampedRowSurvives ==
    (calls > 0 /\ PartlyTimestamped) =>
        \A id \in InputOrderIds :
            /\ RowGroup(id) # {}
            /\ IF StampedRowsOf(id) # {}
               THEN \E k \in StampedRowsOf(id) : SurvivorIs(id, k)
               ELSE \E k \in InputRowsOf(id) : SurvivorIs(id, k)

\* C27 witness: web has no updated_at column and gives order 1 as completed,
\* app has the column and gives order 1 as cancelled; the output has the app
\* row, though the web row comes first in the concatenation
C27_Witness ==
    /\ calls > 0 /\ PartlyTimestamped
    /\ "updated_at" \notin web_df.cols /\ "updated_at" \in app_df.cols
    /\ Len(web_df.rows) = 2
    /\ web_df.rows[1].order_id = 1 /\ web_df.rows[1].status = "completed"
    /\ web_df.rows[2].order_id = 2
    /\ Len(app_df.rows) = 1
    /\ app_df.rows[1].order_id = 1 /\ app_df.rows[1].status = "cancelled"
    /\ RowGroup(1) # {} /\ RowGroup(2) # {}
    /\ \A g \in RowGroup(1) : merged_data.rows[g].status = "cancelled"

\* C28: with unique channels, all rows of the output that share an order_id
\* carry the same status, channel_id, order_date and channel_name
C28_UniformHeader ==
    (calls > 0 /\ UniqueChannels) =>
        \A g, h \in 1..Len(merged_data.rows) :
            merged_data.rows[g].order_id = merged_data.rows[h].order_id =>
                /\ merged_data.rows[g].status = merged_data.rows[h].status
                /\ merged_data.rows[g].channel_id = merged_data.rows[h].channel_id
                /\ merged_data.rows[g].order_date = merged_data.rows[h].order_date
                /\ merged_data.rows[g].channel_name = merged_data.rows[h].channel_name

\* C28 witness: order 1 comes in three versions of different status and has
\* two items; its two output rows are alike in the header fields
C28_Witness ==
    /\ calls > 0 /\ UniqueChannels /\ ~IsEmpty(channels_df)
    /\ Cardinality(InputRowsOf(1)) = 3
    /\ Cardinality({InputOrderRows[k].status : k \in InputRowsOf(1)}) = 3
    /\ Cardinality(RowGroup(1)) = 2
    /\ \E g, h \in RowGroup(1) : merged_data.rows[g].sku # merged_data.rows[h].sku

(***************************************************************************)
(* Properties of the source reader.                                        *)
(***************************************************************************)
\* the latest call was a load with an upload
Uploaded == result.op = "load" /\ Exists(result.value.upload)

\* the upload of the latest call parses
UploadParses == ReadCsv(result.value.upload, ",").raised = "none"

\* C23: a load with an upload that parses returns the parsed dataset; then
\* local_path holds the uploaded data, and what was at local_path before is
\* under the backup name of the call's second
C23_UploadPersisted ==
    (Uploaded /\ UploadParses) =>
        /\ result.raised = "none"
        /\ result.value.df = ReadCsv(result.value.upload, ",").value
        /\ ReadCsv(files.local, ",") = ReadCsv(result.value.upload, ",")
        /\ Exists(result.value.before.local) =>
              files.backups[result.value.at] = result.value.before.local

\* C24: a load with an upload that fails to parse reports the error, returns
\* an empty dataset without reading local_path, does not raise, and leaves
\* the file at local_path and the backups as they were
C24_FailedUpload ==
    (Uploaded /\ ~UploadParses) =>
        /\ result.raised = "none"
        /\ result.value.message = "error"
        /\ result.value.df = EmptyTable
        /\ files = result.value.before

\* C24 witness: an unreadable upload while a valid comma-delimited file lies
\* at local_path and a backup exists
C24_Witness ==
    /\ Uploaded /\ ~UploadParses
    /\ files.local = Comma(1)
    /\ files.backups[0] = Comma(0)
    /\ result.value.df = EmptyTable

\* C25: without upload, load returns the comma-delimited parse of local_path
\* when that succeeds, else its semicolon-delimited parse when that
\* succeeds, else an empty dataset, and an empty dataset when local_path
\* does not exist; it never raises and changes no file
C25_LocalRead ==
    (result.op = "load" /\ ~Exists(result.value.upload)) =>
        /\ result.raised = "none"
        /\ files = result.value.before
        /\ result.value.df =
               IF ~Exists(files.local) THEN EmptyTable
               ELSE IF ReadCsv(files.local, ",").raised = "none"
                    THEN ReadCsv(files.local, ",").value
               ELSE IF ReadCsv(files.local, ";").raised = "none"
                    THEN ReadCsv(files.local, ";").value
               ELSE EmptyTable

\* C25 witness: the local file is semicolon-delimited and its comma parse
\* fails; load returns its semicolon-delimited parse
C25_Witness ==
    /\ result.op = "load" /\ ~Exists(result.value.upload)
    /\ files.local = SemicolonRagged(0)
    /\ result.value.df = Table(0, "split")

\* C29: a successful load with an upload leaves every earlier backup as it
\* was, keeps the replaced version of local_path under a backup name, and
\* puts the upload at local_path
C29_NoBackupLost ==
    (Uploaded /\ result.value.message = "success") =>
        /\ \A t \in 0..MaxClock :
              Exists(result.value.before.backups[t]) =>
                  files.backups[t] = result.value.before.backups[t]
        /\ Exists(result.value.before.local) =>
              \E t \in 0..MaxClock : files.backups[t] = result.value.before.local
        /\ ReadCsv(files.local, ",") = ReadCsv(result.value.upload, ",")

(***************************************************************************)
(* Properties of the database loaders.                                     *)
(***************************************************************************)
\* the rows of the orders table for one order
TableRowsOf(id) == {k \in 1..Len(orders_table) : orders_table[k].order_id = id}

\* the last row of the latest file for an order
LastInFile(rows, id) ==
    rows[CHOOSE k \in 1..Len(rows) :
            /\ rows[k].order_id = id
            /\ \A j \in (k + 1)..Len(rows) : rows[j].order_id # id]

\* C26: after any sequence of insert_orders / load_orders calls the orders
\* table has at most one row per order_id, and the row of an order the
\* latest call supplied carries that call's channel_id, order_date, status
\* and updated_at (the last row of the file for that order)
C26_OrdersUpsert ==
    /\ \A i, j \in 1..Len(orders_table) :
          orders_table[i].order_id = orders_table[j].order_id => i = j
    /\ (result.op \in {"load_orders", "insert_orders"} /\ result.value.ok) =>
          LET rows == result.value.df.rows
          IN  \A n \in 1..Len(rows) :
                  LET last == LastInFile(rows, rows[n].order_id)
                  IN  /\ TableRowsOf(last.order_id) # {}
                      /\ \A k \in TableRowsOf(last.order_id) :
                             /\ orders_table[k].channel_id = last.channel_id
                             /\ orders_table[k].status = last.status
                             /\ orders_table[k].order_date.date = last.order_date.date
                             /\ orders_table[k].updated_at = last.updated_at

====
